---- MODULE Spec2Model ----
(***************************************************************************)
(* The user service of src/main.py: five HTTP handlers over one MongoDB    *)
(* collection ("users").  Every store call (insert_one, find_one,          *)
(* update_one, delete_one, find) is one atomic step; create_user and       *)
(* update_user issue two store calls and may be interleaved with other     *)
(* requests between them.                                                  *)
(***************************************************************************)
EXTENDS Integers, Sequences, FiniteSets, TLC

\* ------------------------------------------------------------- bounds
\* ObjectIds the driver generates in a run (caps the ObjectId counter).
MaxDocs == 2
\* Hex digits of an identifier string (24 in bson, scaled down).
OidLen == 1
\* Value of the first generated ObjectId (so that its text has a letter).
FirstOid == 10

\* to_list(1000), list_users
ListLimit == 1000

Clients == {"c1", "c2"}

\* ------------------------------------------------------------- bson.ObjectId
HexLower == <<"0","1","2","3","4","5","6","7","8","9","a","b","c","d","e","f">>
HexUpper == <<"0","1","2","3","4","5","6","7","8","9","A","B","C","D","E","F">>

HexChars == {HexLower[v] : v \in 1..16} \cup {HexUpper[v] : v \in 1..16}
HexValues == [ch \in HexChars |->
                (CHOOSE v \in 1..16 : HexLower[v] = ch \/ HexUpper[v] = ch) - 1]

IsHex(ch) == ch \in HexChars
HexValue(ch) == HexValues[ch]

\* JSON null, and None for an identifier
NullId == <<"null">>
NoneId == -1

\* ObjectId.is_valid(v) for a string v
ObjectId_is_valid(s) ==
    /\ s # NullId
    /\ Len(s) = OidLen
    /\ \A i \in 1..Len(s) : IsHex(s[i])

RECURSIVE ParseHex(_)
ParseHex(s) ==
    IF s = <<>> THEN 0
    ELSE 16 * ParseHex(SubSeq(s, 1, Len(s) - 1)) + HexValue(s[Len(s)])

\* ObjectId(v): the identifier a valid string denotes (upper or lower case)
ObjectId(s) == ParseHex(s)

RECURSIVE FormatHex(_, _)
FormatHex(v, n) ==
    IF n = 0 THEN <<>>
    ELSE Append(FormatHex(v \div 16, n - 1), HexLower[(v % 16) + 1])

\* str(ObjectId): lower-case hex, the json_encoders entry of UserModel
str(oid) == FormatHex(oid, OidLen)

ToUpper(s) == [i \in 1..Len(s) |-> HexUpper[HexValue(s[i]) + 1]]

\* ------------------------------------------------------------- inputs
Whitespace == {" ", "\t"}
BlankNames == {<<>>, <<" ", "\t">>}
\* the users of the requests: a name and an age each
Ada == [name |-> <<"A">>, age |-> 30]
Bob == [name |-> <<" ", "B">>, age |-> 31]
Users == {Ada, Bob}
Ages == {u.age : u \in Users}

\* ObjectIds the model talks about: the generated ones and one never stored
GenOids == FirstOid..(FirstOid + MaxDocs - 1)
ProbeOids == FirstOid..(FirstOid + MaxDocs)
NotHex == [i \in 1..OidLen |-> "g"]
\* malformed path identifiers (an empty one never reaches these handlers)
BadIds == {NotHex, [i \in 1..(OidLen + 1) |-> "a"]}
\* path identifiers of PUT, and of GET and DELETE (one more, in upper case)
PutIds == {str(o) : o \in ProbeOids} \cup BadIds
PathIds == PutIds \cup {ToUpper(str(FirstOid))}

\* A JSON body: the keys present, and their values (defaults for absent keys)
Body(has, id, name, age) == [has |-> has, _id |-> id, name |-> name, age |-> age]
Payloads ==
    {Body({"name", "age"}, <<>>, u.name, u.age) : u \in Users}
    \cup {Body({"name", "age"}, <<>>, n, 30) : n \in BlankNames}
    \cup {Body({"_id", "name", "age"}, i, Ada.name, Ada.age) :
            i \in {NullId, NotHex} \cup {str(o) : o \in GenOids}}
    \cup {Body({"age"}, <<>>, <<>>, a) : a \in Ages}
    \cup {Body({"name"}, <<>>, Bob.name, 0), Body({}, <<>>, <<>>, 0)}

\* ------------------------------------------------------------- UserModel
RECURSIVE lstrip(_)
lstrip(s) == IF s # <<>> /\ Head(s) \in Whitespace THEN lstrip(Tail(s)) ELSE s
RECURSIVE rstrip(_)
rstrip(s) ==
    IF s # <<>> /\ s[Len(s)] \in Whitespace THEN rstrip(SubSeq(s, 1, Len(s) - 1)) ELSE s
strip(s) == rstrip(lstrip(s))

\* mutant: the validator without its strip() test
name_not_empty_unstripped(v) == v # <<>>

\* the field validator of name: TRUE when it returns v, FALSE when it raises
name_must_not_be_empty(v) == ~(v = <<>> \/ strip(v) = <<>>)

\* PyObjectId.validate: TRUE when it returns ObjectId(v), FALSE when it raises
PyObjectId_validate(v) == ObjectId_is_valid(v)

\* the validation errors of a body against UserModel, in field order
UserModel_errors(p) ==
    (IF "_id" \in p.has /\ p._id # NullId /\ ~PyObjectId_validate(p._id)
        THEN <<"_id: Invalid ObjectId">> ELSE <<>>)
    \o (IF "name" \notin p.has THEN <<"name: Field required">>
        ELSE IF ~name_must_not_be_empty(p.name) THEN <<"name: Name cannot be empty">>
        ELSE <<>>)
    \o (IF "age" \notin p.has THEN <<"age: Field required">> ELSE <<>>)

\* the validated model of a body that has no errors
UserModel(p) ==
    [id |-> IF "_id" \in p.has /\ p._id # NullId THEN ObjectId(p._id) ELSE NoneId,
     name |-> p.name,
     age |-> p.age,
     fields_set |-> {IF k = "_id" THEN "id" ELSE k : k \in p.has}]

\* ------------------------------------------------------------- the collection
Ids(coll) == {d._id : d \in coll}

\* mutant: find_one without its filter
find_one_any(coll, oid) == IF coll = {} THEN {} ELSE {CHOOSE d \in coll : TRUE}

\* find_one({"_id": oid}): the matching documents (none, or one)
find_one(coll, oid) == {d \in coll : d._id = oid}

\* mutant: a cursor that yields the first document only
to_list_first(coll, n) == IF coll = {} THEN {{}} ELSE {{d} : d \in coll}

\* find().to_list(n): at most n documents
to_list(coll, n) ==
    IF Cardinality(coll) <= n THEN {coll}
    ELSE {s \in SUBSET coll : Cardinality(s) = n}

\* mutant: update_one with upsert=True
update_one_upsert(coll, oid, data) ==
    IF oid \in {d._id : d \in coll}
    THEN {IF d._id = oid THEN [_id |-> oid, name |-> data.name, age |-> data.age] ELSE d :
            d \in coll}
    ELSE coll \cup {[_id |-> oid, name |-> data.name, age |-> data.age]}

\* update_one({"_id": oid}, {"$set": data}): only the keys of data are written
update_one(coll, oid, data) ==
    {IF d._id = oid
        THEN [_id |-> d._id,
              name |-> IF "name" \in data.keys THEN data.name ELSE d.name,
              age |-> IF "age" \in data.keys THEN data.age ELSE d.age]
        ELSE d : d \in coll}

\* mutant: delete_many with a filter that matches every document
delete_one_all(coll, oid) == {}

\* delete_one({"_id": oid})
delete_one(coll, oid) == {d \in coll : d._id # oid}

\* mutant: a collection without the unique index
DuplicateKey_never(coll, doc) == FALSE

\* the unique index on _id: insert_one raises DuplicateKeyError
DuplicateKey(coll, doc) == doc._id \in Ids(coll)

\* ------------------------------------------------------------- responses
\* a document as the JSON of the response (response_model = UserModel)
Json(d) == [_id |-> str(d._id), name |-> d.name, age |-> d.age]

Response(op, status, body, detail) ==
    [op |-> op, status |-> status, body |-> body, detail |-> detail]

\* the handler returned the result of find_one under response_model=UserModel
Returned(op, status, found) ==
    IF found # {} /\ \A d \in found : name_must_not_be_empty(d.name)
    THEN Response(op, status, {Json(d) : d \in found}, <<>>)
    ELSE Response(op, 500, {}, <<"Internal Server Error">>)

NotFound(op, id) == Response(op, 404, {}, id)
Unprocessable(op, p) == Response(op, 422, {}, UserModel_errors(p))
ServerError(op) == Response(op, 500, {}, <<"Internal Server Error">>)

\* ------------------------------------------------------------- state
VARIABLES
    store,      \* the documents of collection "users"
    nextOid,    \* the driver's ObjectId counter
    frame,      \* per client: the handler suspended between two store calls
    resp        \* the response sent last

vars == <<store, nextOid, frame, resp>>

\* the locals of a handler: id (the path parameter), user (the validated name
\* and age), inserted_id (of insert_one's result), matched (the matched_count
\* of update_one's result)
Idle == [pc |-> "idle", id |-> <<>>, inserted_id |-> NoneId,
         user |-> [name |-> <<>>, age |-> 0], matched |-> 0]

Init ==
    /\ store = {}
    /\ nextOid = FirstOid
    /\ frame = [c \in Clients |-> Idle]
    /\ resp = Response("none", 0, {}, <<>>)

\* mutant: a user_dict that stores the stripped name
user_dict_stripped(user) == [_id |-> user.id, name |-> strip(user.name), age |-> user.age]

\* user_dict of create_user: model_dump(by_alias=True) without a None "_id"
user_dict(user) == [_id |-> user.id, name |-> user.name, age |-> user.age]

\* mutant: an update_data that drops the name
update_data_age_only(user) ==
    [keys |-> {k \in user.fields_set : k \notin {"id", "name"}},
     name |-> user.name, age |-> user.age]

\* update_data of update_user: the set, non-None fields other than id
update_data(user) ==
    [keys |-> {k \in user.fields_set : k # "id"}, name |-> user.name, age |-> user.age]

\* an identifier string a client can put in a path: malformed, or naming an
\* ObjectId the driver has generated or one it never generates
CanName(id) ==
    ObjectId_is_valid(id) => (ObjectId(id) < nextOid \/ ObjectId(id) \notin GenOids)

\* the name and age of a validated user
Fields(user) == [name |-> user.name, age |-> user.age]

\* GET /
root(c) ==
    /\ frame[c].pc = "idle"
    /\ resp' = Response("root", 200, {}, <<"success">>)
    /\ UNCHANGED <<store, nextOid, frame>>

\* POST /users/ : validation and insert_one
create_user(c, p) ==
    /\ frame[c].pc = "idle"
    /\ IF UserModel_errors(p) # <<>>
       THEN /\ resp' = Unprocessable("create", p)
            /\ UNCHANGED <<store, nextOid, frame>>
       ELSE LET user == UserModel(p)
                doc == user_dict(user)
            IN IF doc._id = NoneId
               THEN \* the driver generates the identifier
                    /\ nextOid < FirstOid + MaxDocs
                    /\ store' = store \cup {[doc EXCEPT !._id = nextOid]}
                    /\ nextOid' = nextOid + 1
                    /\ frame' = [frame EXCEPT ![c] =
                          [Idle EXCEPT !.pc = "create_find", !.inserted_id = nextOid,
                                       !.user = Fields(user)]]
                    /\ UNCHANGED resp
               ELSE \* a client-chosen identifier: one the store issued before
                    /\ doc._id < nextOid
                    /\ IF DuplicateKey(store, doc)
                       THEN \* unhandled: 500
                            /\ resp' = ServerError("create")
                            /\ UNCHANGED <<store, nextOid, frame>>
                       ELSE /\ store' = store \cup {doc}
                            /\ frame' = [frame EXCEPT ![c] =
                                  [Idle EXCEPT !.pc = "create_find", !.inserted_id = doc._id,
                                               !.user = Fields(user)]]
                            /\ UNCHANGED <<nextOid, resp>>

\* POST /users/ : find_one by inserted_id, and the response
create_user_find(c) ==
    /\ frame[c].pc = "create_find"
    /\ resp' = Returned("create", 201, find_one(store, frame[c].inserted_id))
    /\ frame' = [frame EXCEPT ![c] = Idle]
    /\ UNCHANGED <<store, nextOid>>

\* GET /users/
list_users(c) ==
    /\ frame[c].pc = "idle"
    /\ \E docs \in to_list(store, ListLimit) :
          resp' = Response("list", 200, {Json(d) : d \in docs}, <<>>)
    /\ UNCHANGED <<store, nextOid, frame>>

\* GET /users/{id}
get_user(c, id) ==
    /\ frame[c].pc = "idle"
    /\ CanName(id)
    /\ IF ~ObjectId_is_valid(id)
       THEN resp' = ServerError("get")     \* ObjectId(id) raises InvalidId
       ELSE LET user == find_one(store, ObjectId(id))
            IN resp' = IF user # {} THEN Returned("get", 200, user) ELSE NotFound("get", id)
    /\ UNCHANGED <<store, nextOid, frame>>

\* PUT /users/{id} : validation and update_one
update_user(c, id, p) ==
    /\ frame[c].pc = "idle"
    /\ CanName(id)
    /\ IF UserModel_errors(p) # <<>>
       THEN /\ resp' = Unprocessable("update", p)
            /\ UNCHANGED <<store, nextOid, frame>>
       ELSE IF ~ObjectId_is_valid(id)
       THEN /\ resp' = ServerError("update")   \* ObjectId(id) raises InvalidId
            /\ UNCHANGED <<store, nextOid, frame>>
       ELSE LET user == UserModel(p)
                data == update_data(user)
            IN /\ store' = IF data.keys # {} THEN update_one(store, ObjectId(id), data)
                           ELSE store
               /\ frame' = [frame EXCEPT ![c] =
                     [Idle EXCEPT !.pc = "update_find", !.id = id, !.user = Fields(user),
                                  !.matched = IF data.keys # {} /\ ObjectId(id) \in Ids(store)
                                              THEN 1 ELSE 0]]
               /\ UNCHANGED <<nextOid, resp>>

\* PUT /users/{id} : find_one by id, and the response
update_user_find(c) ==
    /\ frame[c].pc = "update_find"
    /\ LET user == find_one(store, ObjectId(frame[c].id))
       IN resp' = IF user # {} THEN Returned("update", 200, user)
                  ELSE NotFound("update", frame[c].id)
    /\ frame' = [frame EXCEPT ![c] = Idle]
    /\ UNCHANGED <<store, nextOid>>

\* DELETE /users/{id}
delete_user(c, id) ==
    /\ frame[c].pc = "idle"
    /\ CanName(id)
    /\ IF ~ObjectId_is_valid(id)
       THEN /\ resp' = ServerError("delete")   \* ObjectId(id) raises InvalidId
            /\ UNCHANGED store
       ELSE IF ObjectId(id) \in Ids(store)      \* deleted_count = 1
       THEN /\ store' = delete_one(store, ObjectId(id))
            /\ resp' = Response("delete", 204, {}, <<>>)
       ELSE /\ resp' = NotFound("delete", id)
            /\ UNCHANGED store
    /\ UNCHANGED <<nextOid, frame>>

\* a step of the request client c has in flight, or a new request of c
Handle(c) ==
    \/ root(c)
    \/ \E p \in Payloads : create_user(c, p)
    \/ create_user_find(c)
    \/ list_users(c)
    \/ \E id \in PathIds : get_user(c, id)
    \/ \E id \in PutIds, p \in Payloads : update_user(c, id, p)
    \/ update_user_find(c)
    \/ \E id \in PathIds : delete_user(c, id)

\* concurrent requests: any interleaving of the store calls
Next == \E c \in Clients : Handle(c)

Spec == Init /\ [][Next]_vars

\* one request at a time: no store call of another request between the two
\* store calls of a request
Alone(c) == \A d \in Clients \ {c} : frame[d].pc = "idle"

NextSeq ==
    \E c \in Clients :
        \/ Alone(c) /\ root(c)
        \/ \E p \in Payloads : Alone(c) /\ create_user(c, p)
        \/ Alone(c) /\ create_user_find(c)
        \/ Alone(c) /\ list_users(c)
        \/ \E id \in PathIds : Alone(c) /\ get_user(c, id)
        \/ \E id \in PutIds, p \in Payloads : Alone(c) /\ update_user(c, id, p)
        \/ Alone(c) /\ update_user_find(c)
        \/ \E id \in PathIds : Alone(c) /\ delete_user(c, id)

SpecSeq == Init /\ [][NextSeq]_vars

\* ------------------------------------------------------------- properties
\* a name that is empty or all whitespace
IsBlank(s) == \A i \in 1..Len(s) : s[i] \in Whitespace

\* a body with a non-blank name, an age and a well-formed or absent identifier
ValidBody(p) ==
    /\ {"name", "age"} \subseteq p.has
    /\ ~IsBlank(p.name)
    /\ "_id" \in p.has => (p._id = NullId \/ p._id \in {str(o) : o \in ProbeOids})

\* the valid bodies of the requests
ValidBodies == {p \in Payloads : ValidBody(p)}

\* a body with no identifier
NoIdentifier(p) == "_id" \notin p.has \/ p._id = NullId

WellFormed == {id \in PathIds : id \notin BadIds}

\* the record of a stored document as a response shows it
Record(oid, user) == [_id |-> str(oid), name |-> user.name, age |-> user.age]

\* client c starts the second store call of an update in this step
StartsUpdate(c) == frame[c].pc = "idle" /\ frame'[c].pc = "update_find"

\* this step is not one of a request of kind op: it sends no response of that
\* kind and suspends no handler of that kind
NoStepOf(op) ==
    /\ resp'.op # op \/ (resp' = resp /\ store' = store)
    /\ \A c \in Clients : frame'[c].pc = frame[c].pc \/ frame'[c].pc # op \o "_find"

\* C1: with one request at a time, Create of a body with a non-blank name, an
\* age and no identifier returns 201 with a record of that name and age and a
\* non-null identifier, and a Get of that identifier that follows it directly
\* returns 200 with the same record.
C1_CreateThenGet ==
    [][/\ NoStepOf("create") \/
          \A c \in Clients, p \in {q \in ValidBodies : NoIdentifier(q)} :
            create_user(c, p) =>
                /\ frame'[c].pc = "create_find"
                /\ frame'[c].inserted_id # NoneId
                /\ frame'[c].user = [name |-> p.name, age |-> p.age]
       /\ \A c \in Clients :
            create_user_find(c) =>
                resp' = Response("create", 201,
                                 {Record(frame[c].inserted_id, frame[c].user)}, <<>>)
       /\ (resp.op = "create" /\ resp.status = 201) =>
            \A c \in Clients, r \in resp.body :
                get_user(c, r._id) => resp' = Response("get", 200, resp.body, <<>>)
      ]_vars

\* C1 witness: a Create of Bob has returned 201 with his record
C1_Witness ==
    /\ resp.op = "create" /\ resp.status = 201
    /\ \E r \in resp.body : r.name = Bob.name /\ r.age = Bob.age /\ r._id = str(FirstOid)
    /\ \A c \in Clients : frame[c].pc = "idle"

\* C2: an Update of an existing user with a body that holds only an age is
\* accepted and sets the stored age of that user, leaving its name and
\* identifier and every other user as they were.
C2_AgeOnlyUpdate ==
    [][\A c \in Clients, id \in WellFormed, a \in Ages :
            (/\ ObjectId(id) \in Ids(store)
             /\ update_user(c, id, Body({"age"}, <<>>, <<>>, a))) =>
                /\ frame'[c].pc = "update_find"
                /\ store' = {IF d._id = ObjectId(id) THEN [d EXCEPT !.age = a] ELSE d :
                               d \in store}
      ]_vars

\* C3: with one request at a time, Get, Update with a valid body and Delete on
\* a well-formed identifier that no stored document has each return 404 and
\* leave the store as it was; Update creates no document.
C3_AbsentIdNotFound ==
    [][/\ NoStepOf("get") \/
          \A c \in Clients, id \in WellFormed :
            (get_user(c, id) /\ ObjectId(id) \notin Ids(store)) =>
                resp' = Response("get", 404, {}, id) /\ store' = store
       /\ NoStepOf("delete") \/
          \A c \in Clients, id \in WellFormed :
            (delete_user(c, id) /\ ObjectId(id) \notin Ids(store)) =>
                resp' = Response("delete", 404, {}, id) /\ store' = store
       /\ (resp'.op # "update" \/ frame' # frame \/ (resp' = resp /\ store' = store)) \/
          \A c \in Clients, id \in WellFormed, p \in ValidBodies :
            ObjectId(id) \notin Ids(store) => ~update_user(c, id, p)
       /\ \A c \in Clients :
            /\ (StartsUpdate(c) /\ ObjectId(frame'[c].id) \notin Ids(store)) =>
                  store' = store /\ frame'[c].matched = 0
            /\ frame'[c].pc = "update_find" /\ frame'[c].matched = 0 =>
                  ObjectId(frame'[c].id) \notin Ids(store')
            /\ (update_user_find(c) /\ ObjectId(frame[c].id) \notin Ids(store)) =>
                  resp' = Response("update", 404, {}, frame[c].id) /\ store' = store
      ]_vars

\* C3 witness: an Update on the identifier no document ever had returned 404
\* while other users are stored
C3_Witness ==
    /\ resp = Response("update", 404, {}, str(FirstOid + MaxDocs))
    /\ store # {}

\* the bodies of the requests whose name is blank
BlankBodies == {p \in Payloads : "name" \in p.has /\ IsBlank(p.name)}

\* C4: Create with an empty or all-whitespace name returns 422 and performs
\* no store operation.
C4_BlankNameRejected ==
    [][NoStepOf("create") \/
       \A c \in Clients, p \in BlankBodies :
            create_user(c, p) =>
                /\ resp'.op = "create" /\ resp'.status = 422
                /\ store' = store /\ nextOid' = nextOid /\ frame' = frame
      ]_vars

\* C4 witness: a Create was rejected for its name while users are stored
C4_Witness ==
    /\ resp = Response("create", 422, {}, <<"name: Name cannot be empty">>)
    /\ store # {}

\* C5: a Delete that returns 204 removes the document of that identifier and
\* no other; an identifier that is not stored becomes stored only by a Create;
\* while it is not stored, Get, Update and Delete on it return 404 and change
\* nothing.
C5_DeletedStaysGone ==
    [][/\ NoStepOf("delete") \/
            \A c \in Clients, id \in WellFormed :
                delete_user(c, id) =>
                    IF resp'.status = 204
                    THEN /\ ObjectId(id) \in Ids(store)
                         /\ ObjectId(id) \notin Ids(store')
                         /\ store' = {d \in store : d._id # ObjectId(id)}
                    ELSE /\ ObjectId(id) \notin Ids(store)
                         /\ resp'.status = 404
                         /\ store' = store
       /\ Ids(store') \ Ids(store) # {} =>
            \E c \in Clients, p \in Payloads : create_user(c, p)
       /\ NoStepOf("get") \/
            \A c \in Clients, id \in WellFormed :
                (get_user(c, id) /\ ObjectId(id) \notin Ids(store)) => resp'.status = 404
       /\ \A c \in Clients :
            /\ (StartsUpdate(c) /\ ObjectId(frame'[c].id) \notin Ids(store)) =>
                  store' = store
            /\ (update_user_find(c) /\ ObjectId(frame[c].id) \notin Ids(store)) =>
                  resp'.status = 404 /\ store' = store
      ]_vars

\* C5 witness: a second Delete of the first identifier returned 404 after the
\* document was removed, with another user still stored
C5_Witness ==
    /\ resp = Response("delete", 404, {}, str(FirstOid))
    /\ nextOid > FirstOid
    /\ FirstOid \notin Ids(store)
    /\ store # {}

\* C6: Get, Update and Delete with a malformed path identifier fail with a
\* 4xx status and leave the store as it was.
C6_MalformedIdClientError ==
    [][\A c \in Clients, id \in BadIds :
        /\ get_user(c, id) => resp'.status \in 400..499 /\ store' = store
        /\ delete_user(c, id) => resp'.status \in 400..499 /\ store' = store
        /\ \A p \in ValidBodies :
              update_user(c, id, p) =>
                  resp'.op = "update" /\ resp'.status \in 400..499 /\ store' = store
      ]_vars

StoreOk ==
    /\ \A d \in store : d._id # NoneId /\ ~IsBlank(d.name)
    /\ \A d, e \in store : d._id = e._id => d = e

\* C8: under every interleaving, every stored user has a non-null identifier
\* that no other stored user has and a non-blank name, and an Update changes
\* no identifier.
C8_StoredUsersWellFormed ==
    /\ []StoreOk
    /\ [][\A c \in Clients :
            StartsUpdate(c) =>
                Ids(store') = Ids(store) /\ Cardinality(store') = Cardinality(store)
         ]_vars

\* C8 witness: two users are stored, one after an Update gave it Bob's name
C8_Witness ==
    /\ Cardinality(store) = 2
    /\ resp.op = "update" /\ resp.status = 200
    /\ \E r \in resp.body : r.name = Bob.name /\ r._id = str(FirstOid)

C10_UpdateSeesOwnWrite ==
    [][\A c \in Clients :
        update_user_find(c) =>
            /\ resp'.status = 200 =>
                  \A r \in resp'.body :
                      r.name = frame[c].user.name /\ r.age = frame[c].user.age
            /\ resp'.status = 404 => frame[c].matched = 0
      ]_vars

\* C10 amended: the write of an Update sets the supplied fields of the
\* matching document and changes nothing else; its re-fetch returns 200 with
\* the document stored under the identifier at that time, and 404 exactly
\* when none is stored then.
C10_UpdateWritesThenReads ==
    [][\A c \in Clients :
        /\ StartsUpdate(c) =>
              LET oid == ObjectId(frame'[c].id) IN
              /\ Ids(store') = Ids(store)
              /\ \A d \in store' :
                    IF d._id = oid
                    THEN d.name = frame'[c].user.name /\ d.age = frame'[c].user.age
                    ELSE d \in store
              /\ frame'[c].matched = (IF oid \in Ids(store) THEN 1 ELSE 0)
        /\ update_user_find(c) =>
              LET found == {d \in store : d._id = ObjectId(frame[c].id)} IN
              /\ resp'.op = "update"
              /\ found = {} => resp' = Response("update", 404, {}, frame[c].id)
              /\ found # {} => resp'.status = 200 /\ resp'.body = {Json(d) : d \in found}
              /\ store' = store
      ]_vars

\* C10 witness: an Update whose write matched is about to re-fetch a document
\* that is no longer stored
C10_Witness ==
    \E c \in Clients :
        /\ frame[c].pc = "update_find"
        /\ frame[c].matched = 1
        /\ ObjectId(frame[c].id) \notin Ids(store)

====
